---- MODULE Spec2Model ----
(***************************************************************************)
(* Model of the FITS -> HDF5 converter of src/main.cc (hdf_convert).       *)
(*                                                                         *)
(* The program is one sequential routine, main(); the model follows its    *)
(* control flow with a program counter and keeps its buffers, statistics   *)
(* vectors and the two output datasets as state.  FP32/FP64 values are     *)
(* modelled as binary floating point numbers m * 2^e with the rounding of  *)
(* IEEE-754 single precision (24 bit significand, ties to even).           *)
(***************************************************************************)
EXTENDS Integers, Sequences, FiniteSets, TLC

(***************************************************************************)
(* Bounds of the model.                                                    *)
(***************************************************************************)
MaxStokes == 2
MaxDepth  == 2
MaxHeight == 2
MaxWidth  == 3
MaxPixels == 6
MaxVal    == 1
MaxRecords == 3

(***************************************************************************)
(* Floating point values.                                                  *)
(***************************************************************************)
\* The powers of two below 2^31.
Pow2Tab[k \in 0 .. 30] == IF k = 0 THEN 1 ELSE 2 * Pow2Tab[k - 1]

Pow2(n) == Pow2Tab[n]

\* The number of bits of n, 0 <= n < 2^30.
BitLen(n) ==
    IF n = 0 THEN 0 ELSE CHOOSE len \in 1 .. 30 : Pow2(len - 1) <= n /\ n < Pow2(len)

Abs(n) == IF n < 0 THEN -n ELSE n

\* A finite value m * 2^e, kept canonical: m odd, or m = 0 and e = 0.
RECURSIVE Canon(_, _)
Canon(m, e) ==
    IF m = 0 THEN [nan |-> FALSE, m |-> 0, e |-> 0]
    ELSE IF m % 2 = 0 THEN Canon(m \div 2, e + 1)
    ELSE [nan |-> FALSE, m |-> m, e |-> e]

NAN == [nan |-> TRUE, m |-> 0, e |-> 0]

isnan(x) == x.nan

FromInt(n) == Canon(n, 0)

\* The integer value of a float that holds one.
ToInt(x) == x.m * Pow2(x.e)

Neg(x) == IF x.nan THEN x ELSE [x EXCEPT !.m = -x.m]

\* numeric_limits<float>::max() = (2^24 - 1) * 2^104
FLT_MAX == [nan |-> FALSE, m |-> 16777215, e |-> 104]

\* The significand of single precision has SigBits bits: a significand lies
\* in [SigLow, SigHigh).
SigBits == 24
SigHigh == Pow2(SigBits)
SigLow  == Pow2(SigBits - 1)

\* n/d * 2^e rounded to single precision, ties to even, for a quotient n/d
\* in [SigLow, SigHigh).
RoundAt(n, d, e) ==
    IF 2 * (n % d) > d \/ (2 * (n % d) = d /\ (n \div d) % 2 = 1)
    THEN Canon(n \div d + 1, e)
    ELSE Canon(n \div d, e)

\* The least t >= 0 with n * 2^t >= d, for 0 < n.
RECURSIVE UpShift(_, _)
UpShift(n, d) == IF n >= d THEN 0 ELSE 1 + UpShift(2 * n, d)

\* n/d * 2^e with n * 2^up / (d * 2^down) as the quotient to round.
RoundShift(n, d, e, up, down) == RoundAt(n * Pow2(up), d * Pow2(down), e - up + down)

\* As RoundQ below, for a quotient of len bits before the binary point.
RoundLen(n, d, e, len) ==
    IF len > SigBits THEN RoundShift(n, d, e, 0, len - SigBits)
    ELSE RoundShift(n, d, e, SigBits - len, 0)

\* n/d * 2^e (n >= 0, d > 0) rounded to the nearest single precision value,
\* ties to even.
RoundQ(n, d, e) ==
    IF n % d = 0 /\ n \div d < SigHigh THEN Canon(n \div d, e)
    ELSE IF n >= d THEN RoundLen(n, d, e, BitLen(n \div d))
    ELSE RoundLen(n * Pow2(UpShift(n, d)), d, e - UpShift(n, d), 1)

Round(n, d, e) == IF n < 0 THEN Neg(RoundQ(-n, d, e)) ELSE RoundQ(n, d, e)

\* a < b for 0 < a.m and 0 < b.m.  Significands have at most SigBits bits, so
\* exponents that lie SigBits or more apart decide the order.
MagLess(a, b) ==
    IF a.e = b.e THEN a.m < b.m
    ELSE IF a.e - b.e >= SigBits THEN FALSE
    ELSE IF b.e - a.e >= SigBits THEN TRUE
    ELSE LET ta == BitLen(a.m) + a.e
             tb == BitLen(b.m) + b.e
         IN  IF ta # tb THEN ta < tb
             ELSE IF a.e >= b.e THEN a.m * Pow2(a.e - b.e) < b.m
             ELSE a.m < b.m * Pow2(b.e - a.e)

\* a < b (every comparison with a NaN is false).
Less(a, b) ==
    IF a.nan \/ b.nan THEN FALSE
    ELSE IF a.m <= 0 /\ b.m > 0 THEN TRUE
    ELSE IF a.m < 0 /\ b.m = 0 THEN TRUE
    ELSE IF a.m >= 0 /\ b.m <= 0 THEN FALSE
    ELSE IF a.m > 0 THEN MagLess(a, b)
    ELSE MagLess(Neg(b), Neg(a))

\* std::min(a, b) = (b < a) ? b : a ; std::max(a, b) = (a < b) ? b : a
min(a, b) == IF Less(b, a) THEN b ELSE a
max(a, b) == IF Less(a, b) THEN b ELSE a

\* A minimum that keeps a NaN first argument, as a plain comparison does.
\* C4 must reject it.
fminKeepsNaN(a, b) == IF Less(b, a) THEN b ELSE a

\* fmin / fmax of <cmath>: a NaN argument is treated as missing data.
fmin(a, b) == IF a.nan THEN b ELSE IF b.nan THEN a ELSE IF Less(b, a) THEN b ELSE a
fmax(a, b) == IF a.nan THEN b ELSE IF b.nan THEN a ELSE IF Less(a, b) THEN b ELSE a

\* The exact sum of two finite values (double precision holds it exactly for
\* the magnitudes of the model).
ExactAdd(a, b) ==
    LET e == IF a.e < b.e THEN a.e ELSE b.e
    IN  Canon(a.m * Pow2(a.e - e) + b.m * Pow2(b.e - e), e)

\* float + float
FAdd(a, b) ==
    IF a.nan \/ b.nan THEN NAN
    ELSE LET s == ExactAdd(a, b) IN Round(s.m, 1, s.e)

\* float * (float) c, c an integer count
FMul(a, c) == IF a.nan THEN NAN ELSE Round(a.m * c, 1, a.e)

\* a / c in floating point, c an integer count, the result stored as float.
\* 0/0 is NaN; x/0 is an infinity, represented as +-2^128.
FDiv(a, c) ==
    IF a.nan THEN NAN
    ELSE IF c = 0 THEN (IF a.m = 0 THEN NAN
                        ELSE [nan |-> FALSE, m |-> (IF a.m < 0 THEN -1 ELSE 1), e |-> 128])
    ELSE Round(a.m, c, a.e)


(***************************************************************************)
(* Character strings.  A std::string is a sequence of one-character         *)
(* strings; positions are 0-based as in the source.  A size_t is an integer,*)
(* a negative one standing for the value 2^64 larger: string::npos is -1,   *)
(* and a difference that wraps below 0 is larger than every length.         *)
(***************************************************************************)
npos == -1

\* s.find(c): the first position of the character c, from position from on
RECURSIVE findFrom(_, _, _)
findFrom(s, c, from) ==
    IF from >= Len(s) THEN npos
    ELSE IF s[from + 1] = c THEN from
    ELSE findFrom(s, c, from + 1)

find(s, c) == findFrom(s, c, 0)

\* s.find_last_of(chars): the last position that holds one of the characters
\* of chars, looking at the positions below upto
RECURSIVE findLastBelow(_, _, _)
findLastBelow(s, chars, upto) ==
    IF upto = 0 THEN npos
    ELSE IF s[upto] \in chars THEN upto - 1
    ELSE findLastBelow(s, chars, upto - 1)

find_last_of(s, chars) == findLastBelow(s, chars, Len(s))

\* s.find(pat) == 0
StartsWith(s, pat) == Len(s) >= Len(pat) /\ SubSeq(s, 1, Len(pat)) = pat

\* s.substr(pos, n) for pos <= s.length(): n characters, or the rest of s
\* when there are fewer (n negative: a wrapped size_t, the rest of s)
substr(s, pos, n) ==
    SubSeq(s, pos + 1, IF n < 0 \/ pos + n > Len(s) THEN Len(s) ELSE pos + n)

\* The vertical tab, 0x0b
VT == ""

\* isspace in the C locale: space, \t, \n, \v, \f, \r
isspace(ch) == ch \in {" ", "\t", "\n", VT, "\f", "\r"}

\* main.cc 19-32
RECURSIVE ltrim(_)
ltrim(s) == IF s # <<>> /\ isspace(Head(s)) THEN ltrim(Tail(s)) ELSE s

RECURSIVE rtrim(_)
rtrim(s) == IF s # <<>> /\ isspace(s[Len(s)]) THEN rtrim(SubSeq(s, 1, Len(s) - 1)) ELSE s

trim(s) == rtrim(ltrim(s))

\* The output name derived from the input name (main.cc 47-53)
DerivedName(inputFileName) ==
    IF find_last_of(inputFileName, {".", "f", "i", "t", "s"}) # npos
    THEN substr(inputFileName, 0,
                find_last_of(inputFileName, {".", "f", "i", "t", "s"}) - 4)
             \o <<".", "h", "d", "f", "5">>
    ELSE inputFileName \o <<".", "h", "d", "f", "5">>

\* The record is left out by the tests of main.cc 144-149
NoAttribute(headerLine) ==
    \/ StartsWith(headerLine, <<"C", "O", "M", "M", "E", "N", "T">>)
    \/ StartsWith(headerLine, <<"H", "I", "S", "T", "O", "R", "Y">>)
    \/ find(headerLine, "=") = npos

\* main.cc 150 and 153
attributeName(headerLine) == trim(substr(headerLine, 0, find(headerLine, "=")))

\* main.cc 151
endPos(headerLine) ==
    IF find_last_of(headerLine, {"/"}) # npos
    THEN find_last_of(headerLine, {"/"}) - find(headerLine, "=") - 1
    ELSE npos

\* main.cc 155-159
Unquote(v) ==
    IF Len(v) >= 2 /\ find(v, "'") = 0 /\ find_last_of(v, {"'"}) = Len(v) - 1
    THEN trim(substr(v, 1, Len(v) - 2))
    ELSE v

\* main.cc 152-159
attributeValue(headerLine) ==
    Unquote(trim(substr(headerLine, find(headerLine, "=") + 1, endPos(headerLine))))

(***************************************************************************)
(* State of main().                                                        *)
(***************************************************************************)
VARIABLES
    pc,            \* position in main()
    status,        \* the CFITSIO status word
    exitCode,      \* exit status of the process once it has ended
    bitpix, N,     \* image type and number of axes
    stokes, depth, height, width,
    tmpExists,     \* "<output>.tmp" exists
    finalExists,   \* "<output>" exists
    outDATA,       \* dataset /0/DATA, in file order
    outSwizzled,   \* dataset /0/SwizzledData/ZYX[W], in file order
    statsWritten,  \* all the Statistics datasets have been created and written
    currentStokes,
    standardCube, rotatedCube,
    minValsXY, maxValsXY, meanValsXY, nanValsXY,
    minValsZ, maxValsZ, meanValsZ, nanValsZ,
    minValsXYZ, maxValsXYZ, meanValsXYZ, nanValsXYZ,
    histogramsXY, partialHistogramsXYZ, histogramsXYZ,
    xyzMin, xyzMax,
    fitsRead,      \* the pixels the reader delivered, by polarization
    argv,          \* the command line arguments after the program name
    header,        \* the header records of the input file, record 1 first
    outputFileName,
    numHeaders,    \* result of fits_get_hdrspace
    hdrIndex,      \* the variable i of the loop over the header records
    headerTmp,     \* the record buffer of the loop
    attributes,    \* the string attributes of group "0": name -> value
    warnings       \* the names of the duplicate-attribute warnings, in order

ctl   == <<pc, status, exitCode>>
hdr   == <<bitpix, N>>
shape == <<stokes, depth, height, width>>
fs    == <<tmpExists, finalExists>>
out   == <<outDATA, outSwizzled, statsWritten>>
bufs  == <<standardCube, rotatedCube>>
xy    == <<minValsXY, maxValsXY, meanValsXY, nanValsXY>>
zst   == <<minValsZ, maxValsZ, meanValsZ, nanValsZ>>
xyz   == <<minValsXYZ, maxValsXYZ, meanValsXYZ, nanValsXYZ>>
hist  == <<histogramsXY, partialHistogramsXYZ, histogramsXYZ>>
loc   == <<currentStokes, xyzMin, xyzMax>>
front == <<argv, header, outputFileName, numHeaders, hdrIndex, headerTmp, attributes,
           warnings>>
vars  == <<ctl, hdr, shape, fs, out, bufs, xy, zst, xyz, hist, loc, fitsRead, front>>

\* Pixel values of the input files of the model.
Vals == {NAN} \cup {FromInt(v) : v \in 0 .. MaxVal}

\* Axis lengths of the input files of the model: <<S, D, H, W>>.
Shapes(n) ==
    {sh \in (1 .. MaxStokes) \X (1 .. MaxDepth) \X (1 .. MaxHeight) \X (1 .. MaxWidth) :
        /\ sh[1] * sh[2] * sh[3] * sh[4] <= MaxPixels
        /\ (n < 4 => sh[1] = 1)
        /\ (n < 3 => sh[2] = 1)}

\* Header records of the input files of the model: keywords with and
\* without blanks, comments and quotes, free-text records, a record without
\* '=', a keyword with the name of a fixed attribute and an empty string
\* value.
Records ==
    { <<"A", "=", "1">>,
      <<"A", " ", "=", " ", "2", " ", "/", " ", "c">>,
      <<"B", VT, "=", " ", "'", " ", "y", VT, "'", " ", "/", " ", "c", "/", "d">>,
      <<"C", "O", "M", "M", "E", "N", "T", " ", "a", "=", "b">>,
      <<"H", "I", "S", "T", "O", "R", "Y", "=", "1">>,
      <<" ", " ", "x">>,
      <<"S", "C", "H", "E", "M", "A", "_", "V", "E", "R", "S", "I", "O", "N", "=", "9">>,
      <<"D", "=", "'", "'">> }

\* The headers of at most MaxRecords records (the END record is not one of
\* them: fits_get_hdrspace does not count it)
Headers == UNION {[1 .. n -> Records] : n \in 0 .. MaxRecords}

\* Names of input files
InputNames ==
    { <<"x", ".", "f", "i", "t", "s">>,
      <<"x", "x", "x", "x", "x", ".", "f", "i", "t", "s">>,
      <<".", "f", "i", "t", "s">>,
      <<"x">>,
      <<"x", "x", "x", "x", "x", "x">>,
      <<"x", "x", "x", "x", ".", "f", "i", "t">>,
      <<"x", ".", "f", "i", "t", "s", ".", "x", "x">>,
      <<"x", "x", "x", "x", ".", "t", "x", "t">>,
      <<"f", "i", "t", "s">>,
      <<"x", "x", "x", "x", "x", "s">> }

\* Command lines: the arguments after the program name
ArgLists ==
    {<<>>} \cup {<<n>> : n \in InputNames}
           \cup {<<n, <<"o">>>> : n \in InputNames}
           \cup {<<<<"x">>, <<"o">>, <<"x">>>>}

\* The input of the runs that vary the image, and the inputs of the runs
\* that vary the command line and the header
PipelineInputs ==
    {[argv |-> << <<"x", ".", "f", "i", "t", "s">> >>,
      header |-> << <<"A", "=", "1">>, <<"B", "=", "'", "x", "'">> >>]}
FrontInputs ==
    {[argv |-> a, header |-> << <<"A", "=", "1">>, <<"B", "=", "'", "x", "'">> >>] :
        a \in ArgLists}
    \cup {[argv |-> << <<"x", ".", "f", "i", "t", "s">> >>, header |-> h] : h \in Headers}

\* The images of each number of axes: all of them, the one image of the
\* runs that vary the command line and the header, and the images of the
\* runs that compare two polarizations: a cube of two slices of two pixels
\* and an image of three pixels for each polarization (the cube has more
\* pixels than MaxPixels allows: with less, every slice of a cube of two
\* polarizations is one pixel and has no histogram)
AllShapes   == [n \in 2 .. 4 |-> Shapes(n)]
StokesShapes ==
    [n \in 2 .. 4 |->
        IF n = 4 THEN {<<2, 2, 1, 2>>, <<2, 1, 1, 3>>} ELSE {<<1, 1, 1, 1>>}]
FrontShapes ==
    [n \in 2 .. 4 |->
        {sh \in Shapes(n) : sh = (IF n >= 3 THEN <<1, 2, 1, 1>> ELSE <<1, 1, 1, 1>>)}]

Zeros(n)   == [x \in 0 .. n - 1 |-> 0]
Fill(n, v) == [x \in 0 .. n - 1 |-> v]

cubeSize == depth * height * width

\* int numBinsHistXY = sqrt(width * height) + 0.5
RECURSIVE RoundSqrt(_, _)
RoundSqrt(n, r) == IF (r + 1) * r < n THEN RoundSqrt(n, r + 1) ELSE r

numBinsHistXY  == RoundSqrt(width * height, 0)
numBinsHistXYZ == numBinsHistXY

\* The state on entry to main() for an input of the set In
Start(In) ==
    /\ \E in \in In : argv = in.argv /\ header = in.header
    /\ outputFileName = <<>> /\ numHeaders = 0 /\ hdrIndex = 0 /\ headerTmp = <<>>
    /\ attributes = <<>> /\ warnings = <<>>
    /\ pc = "args" /\ status = 0 /\ exitCode = -1
    /\ bitpix = 0 /\ N = 0
    /\ stokes = 0 /\ depth = 0 /\ height = 0 /\ width = 0
    /\ tmpExists = FALSE /\ finalExists = FALSE
    /\ outDATA = <<>> /\ outSwizzled = <<>> /\ statsWritten = FALSE
    /\ currentStokes = 0
    /\ standardCube = <<>> /\ rotatedCube = <<>>
    /\ minValsXY = <<>> /\ maxValsXY = <<>> /\ meanValsXY = <<>> /\ nanValsXY = <<>>
    /\ minValsZ = <<>> /\ maxValsZ = <<>> /\ meanValsZ = <<>> /\ nanValsZ = <<>>
    /\ minValsXYZ = <<>> /\ maxValsXYZ = <<>> /\ meanValsXYZ = <<>> /\ nanValsXYZ = <<>>
    /\ histogramsXY = <<>> /\ partialHistogramsXYZ = <<>> /\ histogramsXYZ = <<>>
    /\ xyzMin = NAN /\ xyzMax = NAN
    /\ fitsRead = <<>>

Init == Start(PipelineInputs)

\* The command line (main.cc 36-55)
ParseArgs ==
    /\ pc = "args"
    /\ IF Len(argv) + 1 < 2 \/ Len(argv) + 1 > 3
       THEN pc' = "exit" /\ exitCode' = 1 /\ UNCHANGED outputFileName
       ELSE /\ outputFileName' = IF Len(argv) + 1 = 3 THEN argv[2] ELSE DerivedName(argv[1])
            /\ pc' = "open"
            /\ UNCHANGED exitCode
    /\ UNCHANGED <<status, hdr, shape, fs, out, bufs, xy, zst, xyz, hist, loc, fitsRead,
                   argv, header, numHeaders, hdrIndex, headerTmp, attributes, warnings>>

\* The outcomes of a call to an external collaborator (TRUE: it succeeds).
Succeeds   == {TRUE}
MayFail    == BOOLEAN

\* The CFITSIO status word after a call: 0, or a non-zero error code (the
\* program never tells the non-zero codes apart; 1 stands for any of them).
StatusAfter(ok) == IF status # 0 THEN status ELSE IF ok THEN 0 ELSE 1

\* An uncaught exception of the HDF5 C++ API or of operator new ends the
\* process through std::terminate.  What the calls before the throwing one
\* have done to the output file stays.
Abort(F) ==
    /\ FALSE \in F
    /\ pc' = "aborted"
    /\ exitCode' = 134

\* The first call of a step throws: nothing of the step has taken effect
Throw(F) ==
    /\ Abort(F)
    /\ UNCHANGED <<status, hdr, shape, fs, out, bufs, xy, zst, xyz, hist, loc, fitsRead, front>>

\* int bitpix, int N, long dims[4], int numHeaders, char headerTmp[255] and
\* the array of new float[cubeSize] are not initialised, and a CFITSIO
\* routine that fails, or that is entered with a non-zero status, returns
\* without storing to its output argument.  The object then holds whatever
\* the build left in its place, and the program goes on with that value.
\* The steps below draw the value from the same bounded sets as the values
\* of the input files (with the values a file cannot give, such as an
\* axis of length 0).  pc = "undefined" stands for the runs in which the
\* object holds a value outside these sets: they are followed no further,
\* as the runs on larger images are not; the variables keep what they held.
OtherValue ==
    /\ pc' = "undefined"
    /\ UNCHANGED exitCode

\* The two HDF5 datatypes (main.cc 57-60), whose constructors and setOrder
\* may throw, and fits_open_file with the test of its status (main.cc 64-72)
OpenFile(F) ==
    /\ pc = "open"
    /\ \/ Throw(F)
       \/ /\ \E ok \in F :
               IF ok THEN /\ pc' = "img_type"
                          /\ UNCHANGED <<status, exitCode>>
                     ELSE /\ status' = StatusAfter(ok)
                          /\ pc' = "exit"
                          /\ exitCode' = 1
          /\ UNCHANGED <<hdr, shape, fs, out, bufs, xy, zst, xyz, hist, loc, fitsRead, front>>

\* fits_get_img_type, fits_get_img_dim and the two checks (main.cc 73-84).
\* The file gives a BITPIX of -32 or of another type (16 stands for them)
\* and an NAXIS of 0 to 5.  When fits_get_img_type fails, bitpix holds any
\* value, 0 included, and fits_get_img_dim is entered with a non-zero
\* status; when fits_get_img_dim does not store to it, N holds any value.
\* The checks of lines 76 and 81 tell -32 from the rest and 2 .. 4 from the
\* rest: every other value takes the branch of 16, of 0, of 5.
GetImgTypeDim(F) ==
    /\ pc = "img_type"
    /\ \E okType \in F, okDim \in F, b \in {-32, 16, 0}, n \in 0 .. 5 :
         /\ (status = 0 /\ okType) => b # 0
         /\ bitpix' = b
         /\ N' = n
         /\ status' = StatusAfter(okType /\ okDim)
         /\ IF b # -32 \/ n < 2 \/ n > 4
            THEN pc' = "exit" /\ exitCode' = 1
            ELSE pc' = "img_size" /\ UNCHANGED exitCode
    /\ UNCHANGED <<shape, fs, out, bufs, xy, zst, xyz, hist, loc, fitsRead, front>>

\* What long dims[4] gives when fits_get_img_size has not stored to it:
\* any lengths within the bounds, 0 included.  stokes is 1 when N < 4 and
\* depth is 1 when N < 3 (main.cc 89-90).
GarbageShapes(n) ==
    {sh \in (0 .. MaxStokes) \X (0 .. MaxDepth) \X (0 .. MaxHeight) \X (0 .. MaxWidth) :
        /\ sh[1] * sh[2] * sh[3] * sh[4] <= MaxPixels
        /\ (n < 4 => sh[1] = 1)
        /\ (n < 3 => sh[2] = 1)}

\* fits_get_img_size and the axis lengths (main.cc 86-92).  A call that
\* fails leaves dims as it was, and lines 89-92 compute the lengths from
\* what it holds: lengths of GarbageShapes, or lengths outside the bounds.
GetImgSize(F, Sh) ==
    /\ pc = "img_size"
    /\ \E ok \in F :
         /\ status' = StatusAfter(ok)
         /\ \/ /\ \E sh \in (IF status = 0 /\ ok THEN Sh[N] ELSE GarbageShapes(N)) :
                    /\ stokes' = sh[1] /\ depth' = sh[2]
                    /\ height' = sh[3] /\ width' = sh[4]
               /\ pc' = "create_output"
               /\ UNCHANGED exitCode
            \/ /\ ~(status = 0 /\ ok)
               /\ OtherValue
               /\ UNCHANGED shape
    /\ UNCHANGED <<hdr, fs, out, bufs, xy, zst, xyz, hist, loc, fitsRead, front>>

\* SCHEMA_VERSION, HDF5_CONVERTER and HDF5_CONVERTER_VERSION (main.cc 13-15,
\* 131-136)
FixedAttributes ==
    (<<"S", "C", "H", "E", "M", "A", "_", "V", "E", "R", "S", "I", "O", "N">>
        :> <<"0", ".", "1">>)
    @@ (<<"H", "D", "F", "5", "_", "C", "O", "N", "V", "E", "R", "T", "E", "R">>
        :> <<"h", "d", "f", "_", "c", "o", "n", "v", "e", "r", "t">>)
    @@ (<<"H", "D", "F", "5", "_", "C", "O", "N", "V", "E", "R", "T", "E", "R", "_",
          "V", "E", "R", "S", "I", "O", "N">>
        :> <<"0", ".", "1", ".", "4">>)

\* The names of the fixed attributes in the order of their creation
FixedNames ==
    << <<"S", "C", "H", "E", "M", "A", "_", "V", "E", "R", "S", "I", "O", "N">>,
       <<"H", "D", "F", "5", "_", "C", "O", "N", "V", "E", "R", "T", "E", "R">>,
       <<"H", "D", "F", "5", "_", "C", "O", "N", "V", "E", "R", "T", "E", "R", "_",
         "V", "E", "R", "S", "I", "O", "N">> >>

\* The value of an attribute that createAttribute has made and
\* Attribute::write has not written yet
NotWritten == <<"(created, not written)">>

\* The attributes of group "0" after the first n of the six calls
\* createAttribute, write, createAttribute, write, createAttribute, write
\* of main.cc 131-136
FixedAfter(n) ==
    [nm \in {FixedNames[i] : i \in 1 .. (n + 1) \div 2} |->
        IF 2 * (CHOOSE i \in 1 .. Len(FixedNames) : FixedNames[i] = nm) <= n
        THEN FixedAttributes[nm] ELSE NotWritten]

\* H5File(tempOutputFileName, H5F_ACC_TRUNC), group "0" and the three fixed
\* attributes (main.cc 124-136).  The constructor may throw, and then there
\* is no file; createGroup or one of the six attribute calls may throw, and
\* then the file exists with the attributes made so far.
CreateOutput(F) ==
    /\ pc = "create_output"
    /\ \/ Throw(F)
       \/ /\ Abort(F)
          /\ tmpExists' = TRUE
          /\ \E n \in 0 .. 5 : attributes' = FixedAfter(n)
          /\ UNCHANGED <<status, hdr, shape, finalExists, out, bufs, xy, zst,
                         xyz, hist, loc, fitsRead, argv, header, outputFileName,
                         numHeaders, hdrIndex, headerTmp, warnings>>
       \/ /\ tmpExists' = TRUE
          /\ attributes' = FixedAfter(6)
          /\ pc' = "headers"
          /\ UNCHANGED <<status, exitCode, hdr, shape, finalExists, out, bufs, xy, zst,
                         xyz, hist, loc, fitsRead, argv, header, outputFileName,
                         numHeaders, hdrIndex, headerTmp, warnings>>

\* What char headerTmp[255] holds before the first record is stored in it:
\* any bytes up to the first 0.  The model takes an empty string, the text
\* of a record of the file, a string of bytes without '=' and one with '='.
Garbage ==
    {<<>>, <<" ", "\r", "\"", "g">>, <<"g", "\r", "=", "\"">>}
        \cup {header[i] : i \in 1 .. Len(header)}

\* fits_get_hdrspace and the entry to the loop over the records (main.cc
\* 138-141).  A call that fails, or that is entered with a non-zero status,
\* leaves numHeaders as it was: it holds any number, one of 0 .. MaxRecords
\* or another.
GetHdrSpace(F) ==
    /\ pc = "headers"
    /\ \E ok \in F :
         /\ status' = StatusAfter(ok)
         /\ \/ /\ \E n \in (IF status = 0 /\ ok THEN {Len(header)} ELSE 0 .. MaxRecords) :
                    /\ numHeaders' = n
                    /\ pc' = IF 0 < n THEN "header_loop" ELSE "create_datasets"
               /\ UNCHANGED exitCode
            \/ /\ ~(status = 0 /\ ok)
               /\ OtherValue
               /\ UNCHANGED numHeaders
    /\ hdrIndex' = 0
    /\ UNCHANGED <<hdr, shape, fs, out, bufs, xy, zst, xyz, hist, loc, fitsRead,
                   argv, header, outputFileName, headerTmp, attributes, warnings>>

\* fits_read_record(inputFilePtr, keynum, headerTmp, &status): the records
\* are numbered from 1; keynum 0 moves to the top of the header and returns
\* a blank record; a keynum above the number of records is an error.  A call
\* that fails, or is entered with a non-zero status, leaves the buffer as it
\* was.
RecordRead(keynum, ok) == status = 0 /\ ok /\ keynum <= Len(header)
Card(keynum, ok, before) ==
    IF RecordRead(keynum, ok)
    THEN (IF keynum = 0 THEN <<>> ELSE header[keynum])
    ELSE before

\* A translator that writes the attribute of every keyword record, whether
\* the name exists or not
PutAttributeOverwrite(headerLine) ==
    IF NoAttribute(headerLine) THEN UNCHANGED <<attributes, warnings>>
    ELSE /\ attributes' = (attributeName(headerLine) :> attributeValue(headerLine))
                            @@ attributes
         /\ UNCHANGED warnings

\* main.cc 160-165
PutAttribute(headerLine) ==
    IF NoAttribute(headerLine) THEN UNCHANGED <<attributes, warnings>>
    ELSE IF attributeName(headerLine) \in DOMAIN attributes
    THEN /\ warnings' = Append(warnings, attributeName(headerLine))
         /\ UNCHANGED attributes
    ELSE /\ attributes' = (attributeName(headerLine) :> attributeValue(headerLine))
                            @@ attributes
         /\ UNCHANGED warnings

\* An exception in the translation of a keyword record (main.cc 160-162):
\* attrExists or createAttribute throws and the attributes are as before,
\* or Attribute::write throws and the new attribute exists without a value.
\* A record that gives no attribute makes no call that throws.
PutAttributeThrows(headerLine) ==
    /\ ~NoAttribute(headerLine)
    /\ \/ attributes' = attributes
       \/ /\ attributeName(headerLine) \notin DOMAIN attributes
          /\ attributes' = (attributeName(headerLine) :> NotWritten) @@ attributes
    /\ UNCHANGED warnings

\* One iteration of the loop over the header records (main.cc 141-168), with
\* i = hdrIndex: the record is read, then translated.  When the read of the
\* first iteration does not store to it, headerTmp holds a string of
\* Garbage or other bytes, and the loop goes on with what it holds; in a
\* later iteration the buffer holds the record of the iteration before.
TranslateHeaders(F) ==
    /\ pc = "header_loop"
    /\ \E ok \in F, g \in Garbage :
         /\ (RecordRead(hdrIndex, ok) \/ hdrIndex > 0) => g = <<>>
         /\ status' = IF status # 0 THEN status
                      ELSE IF RecordRead(hdrIndex, ok) THEN 0 ELSE 1
         /\ \/ /\ headerTmp' = Card(hdrIndex, ok, IF hdrIndex = 0 THEN g ELSE headerTmp)
               /\ \/ /\ Abort(F)
                     /\ PutAttributeThrows(headerTmp')
                     /\ UNCHANGED hdrIndex
                  \/ /\ PutAttribute(headerTmp')
                     /\ hdrIndex' = hdrIndex + 1
                     /\ pc' = IF hdrIndex + 1 < numHeaders THEN "header_loop"
                                                          ELSE "create_datasets"
                     /\ UNCHANGED exitCode
            \/ /\ hdrIndex = 0 /\ ~RecordRead(hdrIndex, ok) /\ g = <<>>
               /\ OtherValue
               /\ UNCHANGED <<headerTmp, hdrIndex, attributes, warnings>>
    /\ UNCHANGED <<hdr, shape, fs, out, bufs, xy, zst, xyz, hist, loc,
                   fitsRead, argv, header, outputFileName, numHeaders>>

\* createGroup("SwizzledData") / createDataSet (main.cc 170-176).  A new
\* dataset reads as the fill value 0.  When the creation of DATA throws, the
\* swizzled dataset of a cube exists already.
CreateDatasets(F) ==
    /\ pc = "create_datasets"
    /\ \/ Throw(F)
       \/ /\ Abort(F)
          /\ depth > 1
          /\ outSwizzled' = Fill(stokes * cubeSize, FromInt(0))
          /\ UNCHANGED <<status, hdr, shape, fs, outDATA, statsWritten, bufs, xy, zst,
                         xyz, hist, loc, fitsRead, front>>
       \/ /\ outDATA' = Fill(stokes * cubeSize, FromInt(0))
          /\ outSwizzled' = IF depth > 1 THEN Fill(stokes * cubeSize, FromInt(0)) ELSE <<>>
          /\ pc' = "allocate"
          /\ UNCHANGED <<status, exitCode, hdr, shape, fs, statsWritten, bufs, xy, zst,
                         xyz, hist, loc, fitsRead, front>>

\* The buffers and the statistics vectors (main.cc 178-223).  vector(n) and
\* resize(n) zero the elements, resize(n, v) fills them with v.  new float[]
\* leaves the cubes uninitialised: standardCube is <<>> until the first
\* read; rotatedCube is shown with zeros, every element of it being stored
\* by the first loop before the writer reads it.
AllocCount == IF depth > 1 THEN 17 ELSE 6

\* The vectors after the first k allocations, in the order of the code:
\* standardCube, the four XY vectors, histogramsXY, and when depth > 1
\* rotatedCube, the four Z vectors, the four XYZ vectors and the two XYZ
\* histograms.
AllocAfter(k) ==
    /\ minValsXY' = IF k >= 2 THEN Fill(depth * stokes, FromInt(0)) ELSE minValsXY
    /\ maxValsXY' = IF k >= 3 THEN Fill(depth * stokes, FromInt(0)) ELSE maxValsXY
    /\ meanValsXY' = IF k >= 4 THEN Fill(depth * stokes, FromInt(0)) ELSE meanValsXY
    /\ nanValsXY' = IF k >= 5 THEN Zeros(depth * stokes) ELSE nanValsXY
    /\ histogramsXY' = IF k >= 6 THEN Zeros(depth * stokes * numBinsHistXY) ELSE histogramsXY
    /\ rotatedCube' = IF k >= 7 THEN Fill(cubeSize, FromInt(0)) ELSE rotatedCube
    /\ minValsZ' = IF k >= 8 THEN Fill(width * height * stokes, FLT_MAX) ELSE minValsZ
    /\ maxValsZ' = IF k >= 9 THEN Fill(width * height * stokes, Neg(FLT_MAX)) ELSE maxValsZ
    /\ meanValsZ' = IF k >= 10 THEN Fill(width * height * stokes, FromInt(0)) ELSE meanValsZ
    /\ nanValsZ' = IF k >= 11 THEN Zeros(width * height * stokes) ELSE nanValsZ
    /\ minValsXYZ' = IF k >= 12 THEN Fill(stokes, FromInt(0)) ELSE minValsXYZ
    /\ maxValsXYZ' = IF k >= 13 THEN Fill(stokes, FromInt(0)) ELSE maxValsXYZ
    /\ meanValsXYZ' = IF k >= 14 THEN Fill(stokes, FromInt(0)) ELSE meanValsXYZ
    /\ nanValsXYZ' = IF k >= 15 THEN Zeros(stokes) ELSE nanValsXYZ
    /\ partialHistogramsXYZ' =
         IF k >= 16 THEN Zeros(depth * stokes * numBinsHistXYZ) ELSE partialHistogramsXYZ
    /\ histogramsXYZ' = IF k >= 17 THEN Zeros(stokes * numBinsHistXYZ) ELSE histogramsXYZ

\* The allocations (main.cc 182-222) and the entry to the loop over the
\* polarizations (main.cc 229), which is left at once when stokes is 0.  An
\* allocation that throws leaves the vectors allocated before it.
Allocate(F) ==
    /\ pc = "allocate"
    /\ \/ /\ Abort(F)
          /\ \E k \in 0 .. AllocCount - 1 : AllocAfter(k)
          /\ UNCHANGED currentStokes
       \/ /\ AllocAfter(AllocCount)
          /\ currentStokes' = 0
          /\ pc' = IF 0 < stokes THEN "read" ELSE "write_stats"
          /\ UNCHANGED exitCode
    /\ UNCHANGED <<status, hdr, shape, fs, out, standardCube, xyzMin, xyzMax, fitsRead, front>>

\* The pixels of one polarization of an input file
Cubes == [0 .. cubeSize - 1 -> Vals]

\* long fpixel[] = {1, 1, 1, currentStokes + 1}
fpixel == <<1, 1, 1, currentStokes + 1>>

\* The memory dataspace and fits_read_pix (main.cc 229-241).  The
\* constructor DataSpace memspace(3, memDims) may throw.  The status of
\* fits_read_pix is not looked at.  A call that fails, or that is entered
\* with a non-zero status, leaves the buffer as it was: the cube of the
\* polarization before, or for the first polarization what new float[]
\* left in the array, floats of the model (a cube of Cubes) or others
\* (standardCube stays <<>>).
ReadPix(F) ==
    /\ pc = "read"
    /\ \/ Throw(F)
       \/ /\ \E ok \in F, cube \in Cubes :
               IF status = 0 /\ ok
               THEN /\ standardCube' = cube
                    /\ fitsRead' = (fpixel[4] - 1 :> cube) @@ fitsRead
                    /\ UNCHANGED status
               ELSE /\ status' = StatusAfter(ok)
                    /\ \/ standardCube' = IF standardCube = <<>> THEN cube ELSE standardCube
                       \/ standardCube = <<>> /\ UNCHANGED standardCube
                    /\ UNCHANGED fitsRead
          /\ pc' = "slice_pass"
          /\ UNCHANGED <<exitCode, hdr, shape, fs, out, rotatedCube, xy, zst, xyz, hist, loc,
                         front>>

(***************************************************************************)
(* The NaN-safe reduction of the statistics loops.                         *)
(***************************************************************************)
Acc0 == [minVal |-> FLT_MAX, maxVal |-> Neg(FLT_MAX), sum |-> FromInt(0), nanCount |-> 0]

\* An accumulation that takes a NaN for the number 0.  C3 must reject it.
AccumulateNaNAsZero(acc, val) ==
    [minVal   |-> min(acc.minVal, IF isnan(val) THEN FromInt(0) ELSE val),
     maxVal   |-> max(acc.maxVal, IF isnan(val) THEN FromInt(0) ELSE val),
     sum      |-> FAdd(acc.sum, IF isnan(val) THEN FromInt(0) ELSE val),
     nanCount |-> acc.nanCount]

\* main.cc 265-271 and 332-339
Accumulate(acc, val) ==
    IF ~isnan(val)
    THEN [minVal   |-> min(acc.minVal, val),
          maxVal   |-> max(acc.maxVal, val),
          sum      |-> FAdd(acc.sum, val),
          nanCount |-> acc.nanCount]
    ELSE [acc EXCEPT !.nanCount = @ + 1]

\* The accumulators after the values vals[0 .. n-1], in that order.
RECURSIVE Reduce(_, _)
Reduce(vals, n) == IF n = 0 THEN Acc0 ELSE Accumulate(Reduce(vals, n - 1), vals[n - 1])

\* A destination index that does not exchange the X and Z axes.  C1 must
\* reject it.
destIndexUntransposed(i, j, k) == k + width * j + (height * width) * i

\* A destination index without the slice number: every slice stores to the
\* same elements
destIndexSharedColumn(i, j, k) == depth * j + (height * depth) * k

sourceIndex(i, j, k) == k + width * j + (height * width) * i
destIndex(i, j, k)   == i + depth * j + (height * depth) * k

\* rotatedCube after the stores of the first n iterations of the loops over
\* i, j and k, taken in program order (main.cc 248-262).
RECURSIVE Rotate(_, _, _)
Rotate(cube, rot, n) ==
    IF n = 0 THEN rot
    ELSE LET v == n - 1
             i == v \div (height * width)
             j == (v \div width) % height
             k == v % width
         IN  [Rotate(cube, rot, n - 1) EXCEPT
                ![destIndex(i, j, k)] = cube[sourceIndex(i, j, k)]]

\* The pixels of slice i in the order of the loops over j and k.
SliceVals(cube, i) ==
    [n \in 0 .. height * width - 1 |-> cube[sourceIndex(i, n \div width, n % width)]]

\* The accumulators of slice i (main.cc 249-273)
SliceAcc(cube, i) == Reduce(SliceVals(cube, i), height * width)

\* The four values a statistics loop publishes from its accumulators a:
\* guard is the NaN count its test compares with, n the number of values the
\* loop has visited (main.cc 275-285 and 341-351).
Publish(a, guard, n) ==
    IF a.nanCount # guard
    THEN [minV |-> a.minVal, maxV |-> a.maxVal, nanV |-> a.nanCount,
          meanV |-> FDiv(a.sum, n - a.nanCount)]
    ELSE [minV |-> NAN, maxV |-> NAN, nanV |-> a.nanCount, meanV |-> NAN]

\* The four values published for slice i (main.cc 275-285)
SliceStats(cube, i) == Publish(SliceAcc(cube, i), height * width, height * width)

InSlab(x, base, n) == base <= x /\ x < base + n

\* The values published for slices 0 .. n-1, as a sequence.
RECURSIVE SliceStatsTo(_, _)
SliceStatsTo(cube, n) ==
    IF n = 0 THEN <<>> ELSE Append(SliceStatsTo(cube, n - 1), SliceStats(cube, n - 1))

\* The stores of the first loop into the XY vectors: the values st[i + 1] of
\* slice i go to element currentStokes * depth + i.
StoreXY(base, st) ==
    /\ minValsXY' = [x \in DOMAIN minValsXY |->
         IF InSlab(x, base, depth) THEN st[x - base + 1].minV ELSE minValsXY[x]]
    /\ maxValsXY' = [x \in DOMAIN maxValsXY |->
         IF InSlab(x, base, depth) THEN st[x - base + 1].maxV ELSE maxValsXY[x]]
    /\ nanValsXY' = [x \in DOMAIN nanValsXY |->
         IF InSlab(x, base, depth) THEN st[x - base + 1].nanV ELSE nanValsXY[x]]
    /\ meanValsXY' = [x \in DOMAIN meanValsXY |->
         IF InSlab(x, base, depth) THEN st[x - base + 1].meanV ELSE meanValsXY[x]]

\* A first loop that is followed by the histogram loop for every depth
SlicePassThenHistogram ==
    /\ pc = "slice_pass"
    /\ StoreXY(currentStokes * depth, SliceStatsTo(standardCube, depth))
    /\ rotatedCube' = IF depth > 1 THEN Rotate(standardCube, rotatedCube, cubeSize)
                                   ELSE rotatedCube
    /\ pc' = "histogram"
    /\ UNCHANGED <<status, exitCode, hdr, shape, fs, out, standardCube, zst, xyz, hist,
                   loc, fitsRead, front>>

\* First loop: statistics of each XY slice and rotation (main.cc 247-286).
\* Line 258 reads standardCube; when the array holds floats that are not
\* of the model, the run is followed no further.
SlicePass ==
    /\ pc = "slice_pass"
    /\ IF standardCube = <<>> /\ cubeSize > 0
       THEN OtherValue /\ UNCHANGED <<xy, rotatedCube>>
       ELSE /\ StoreXY(currentStokes * depth, SliceStatsTo(standardCube, depth))
            /\ rotatedCube' = IF depth > 1 THEN Rotate(standardCube, rotatedCube, cubeSize)
                                           ELSE rotatedCube
            /\ pc' = IF depth > 1 THEN "consolidate" ELSE "histogram"
            /\ UNCHANGED exitCode
    /\ UNCHANGED <<status, hdr, shape, fs, out, standardCube, zst, xyz, hist,
                   loc, fitsRead, front>>

\* One iteration of the consolidation loop (main.cc 298-307).  xyzSum is a
\* double: the sum is exact.
XYZStep(a, meanVal, nanCount, sliceMin, sliceMax) ==
    IF ~isnan(meanVal)
    THEN [xyzSum      |-> ExactAdd(a.xyzSum, FMul(meanVal, height * width - nanCount)),
          xyzNanCount |-> a.xyzNanCount + nanCount,
          xyzMin      |-> fmin(a.xyzMin, sliceMin),
          xyzMax      |-> fmax(a.xyzMax, sliceMax)]
    ELSE [a EXCEPT !.xyzNanCount = @ + nanCount]

\* The running values of the consolidation loop after slices 0 .. n-1
\* (main.cc 293-307)
RECURSIVE XYZAcc(_, _)
XYZAcc(s, n) ==
    IF n = 0
    THEN [xyzSum |-> FromInt(0), xyzNanCount |-> 0,
          xyzMin |-> minValsXY[s * depth], xyzMax |-> maxValsXY[s * depth]]
    ELSE XYZStep(XYZAcc(s, n - 1), meanValsXY[s * depth + n - 1],
                 nanValsXY[s * depth + n - 1], minValsXY[s * depth + n - 1],
                 maxValsXY[s * depth + n - 1])

\* The stores of the consolidation (main.cc 309-314)
\* Stores that divide whatever the NaN count of the cube is.  C5 must reject
\* them.
StoreXYZUnguarded(a) ==
    /\ xyzMin' = a.xyzMin
    /\ xyzMax' = a.xyzMax
    /\ minValsXYZ' = [minValsXYZ EXCEPT ![currentStokes] = a.xyzMin]
    /\ maxValsXYZ' = [maxValsXYZ EXCEPT ![currentStokes] = a.xyzMax]
    /\ nanValsXYZ' = [nanValsXYZ EXCEPT ![currentStokes] = a.xyzNanCount]
    /\ meanValsXYZ' = [meanValsXYZ EXCEPT ![currentStokes] =
                         FDiv(a.xyzSum, cubeSize - a.xyzNanCount)]

StoreXYZ(a) ==
    /\ xyzMin' = a.xyzMin
    /\ xyzMax' = a.xyzMax
    /\ minValsXYZ' = [minValsXYZ EXCEPT ![currentStokes] = a.xyzMin]
    /\ maxValsXYZ' = [maxValsXYZ EXCEPT ![currentStokes] = a.xyzMax]
    /\ nanValsXYZ' = [nanValsXYZ EXCEPT ![currentStokes] = a.xyzNanCount]
    /\ meanValsXYZ' =
         IF a.xyzNanCount # cubeSize
         THEN [meanValsXYZ EXCEPT ![currentStokes] = FDiv(a.xyzSum, cubeSize - a.xyzNanCount)]
         ELSE meanValsXYZ

\* Consolidate XY stats into XYZ stats (main.cc 288-315)
ConsolidateXYZ ==
    /\ pc = "consolidate"
    /\ StoreXYZ(XYZAcc(currentStokes, depth))
    /\ pc' = "profile_pass"
    /\ UNCHANGED <<status, exitCode, hdr, shape, fs, out, bufs, xy, zst, hist,
                   currentStokes, fitsRead, front>>

\* The values of the Z profile at (j, k) in the order of the loop over i.
ProfileVals(cube, j, k) == [i \in 0 .. depth - 1 |-> cube[sourceIndex(i, j, k)]]

\* The four values published for the profile at (j, k) (main.cc 324-351)
ProfileStats(cube, j, k) ==
    Publish(Reduce(ProfileVals(cube, j, k), depth), height * width, depth)

\* The values published for the profiles 0 .. n-1 (profile x is the one at
\* j = x \div width, k = x % width), as a sequence.
RECURSIVE ProfileStatsTo(_, _)
ProfileStatsTo(cube, n) ==
    IF n = 0 THEN <<>>
    ELSE Append(ProfileStatsTo(cube, n - 1),
                ProfileStats(cube, (n - 1) \div width, (n - 1) % width))

\* The stores of the second loop into the Z vectors: the values
\* st[k + j * width + 1] of the profile at (j, k) go to element
\* currentStokes * width * height + k + j * width.
StoreZ(base, st) ==
    /\ minValsZ' = [x \in DOMAIN minValsZ |->
         IF InSlab(x, base, width * height) THEN st[x - base + 1].minV ELSE minValsZ[x]]
    /\ maxValsZ' = [x \in DOMAIN maxValsZ |->
         IF InSlab(x, base, width * height) THEN st[x - base + 1].maxV ELSE maxValsZ[x]]
    /\ nanValsZ' = [x \in DOMAIN nanValsZ |->
         IF InSlab(x, base, width * height) THEN st[x - base + 1].nanV ELSE nanValsZ[x]]
    /\ meanValsZ' = [x \in DOMAIN meanValsZ |->
         IF InSlab(x, base, width * height) THEN st[x - base + 1].meanV ELSE meanValsZ[x]]

\* Second loop: statistics of each Z profile (main.cc 319-354)
ProfilePass ==
    /\ pc = "profile_pass"
    /\ StoreZ(currentStokes * width * height, ProfileStatsTo(standardCube, width * height))
    /\ pc' = "histogram"
    /\ UNCHANGED <<status, exitCode, hdr, shape, fs, out, bufs, xy, xyz, hist, loc,
                   fitsRead, front>>

imin(a, b) == IF b < a THEN b ELSE a

\* n / d truncated towards zero
Trunc(n, d) == IF (n < 0) = (d < 0) THEN Abs(n) \div Abs(d) ELSE -(Abs(n) \div Abs(d))

\* numBins * num / range for doubles num and range, truncated; e is the
\* smaller of the two exponents.
ScaledAt(numBins, num, range, e) ==
    Trunc(numBins * num.m * Pow2(num.e - e), range.m * Pow2(range.e - e))

\* (int)(numBins * (val - lo) / range).  The operands are doubles;
\* difference, product and truncated quotient are exact for the magnitudes
\* of the model.
Scaled(numBins, num, range) ==
    ScaledAt(numBins, num, range, IF num.e < range.e THEN num.e ELSE range.e)

\* binIndex without the clamp to the last bin: the greatest pixel of a slice
\* falls one past the row.  C8 must reject it.
binIndexUnclamped(numBins, val, lo, range) ==
    Scaled(numBins, ExactAdd(val, Neg(lo)), range)

\* main.cc 385 and 390
binIndex(numBins, val, lo, range) ==
    imin(numBins - 1, Scaled(numBins, ExactAdd(val, Neg(lo)), range))

\* double range = sliceMax - sliceMin
Range(hi, lo) == IF hi.nan \/ lo.nan THEN NAN ELSE ExactAdd(hi, Neg(lo))

\* The test that leaves a slice out of the third loop (main.cc 376-378)
Degenerate(sliceMin, sliceMax, range) == isnan(sliceMin) \/ isnan(sliceMax) \/ range.m = 0

SkipSlice(s, i) ==
    Degenerate(minValsXY[s * depth + i], maxValsXY[s * depth + i],
               Range(maxValsXY[s * depth + i], minValsXY[s * depth + i]))

\* The XY histogram after the third loop has visited the first n pixels of
\* the cube, in the order of the loops over i and j (main.cc 371-386).
RECURSIVE HistXYTo(_, _, _)
HistXYTo(h, s, n) ==
    IF n = 0 THEN h
    ELSE LET i   == (n - 1) \div (width * height)
             val == standardCube[n - 1]
         IN  IF SkipSlice(s, i) \/ isnan(val) THEN HistXYTo(h, s, n - 1)
             ELSE [HistXYTo(h, s, n - 1) EXCEPT
                     ![s * depth * numBinsHistXY + i * numBinsHistXY
                       + binIndex(numBinsHistXY, val, minValsXY[s * depth + i],
                                  Range(maxValsXY[s * depth + i], minValsXY[s * depth + i]))]
                         = @ + 1]

\* The partial XYZ histogram likewise (main.cc 388-392); cubeMin and cubeMax
\* are the xyzMin and xyzMax of the consolidation.
RECURSIVE HistXYZTo(_, _, _)
HistXYZTo(h, s, n) ==
    IF n = 0 THEN h
    ELSE LET i   == (n - 1) \div (width * height)
             val == standardCube[n - 1]
         IN  IF SkipSlice(s, i) \/ isnan(val) \/ ~(depth > 1) THEN HistXYZTo(h, s, n - 1)
             ELSE [HistXYZTo(h, s, n - 1) EXCEPT
                     ![s * depth * numBinsHistXYZ + i * numBinsHistXYZ
                       + binIndex(numBinsHistXYZ, val, xyzMin, Range(xyzMax, xyzMin))]
                         = @ + 1]

\* Third loop: histograms (main.cc 358-395)
HistogramPass ==
    /\ pc = "histogram"
    /\ histogramsXY' = HistXYTo(histogramsXY, currentStokes, cubeSize)
    /\ partialHistogramsXYZ' = HistXYZTo(partialHistogramsXYZ, currentStokes, cubeSize)
    /\ pc' = IF depth > 1 THEN "consolidate_hist" ELSE "write_data"
    /\ UNCHANGED <<status, exitCode, hdr, shape, fs, out, bufs, xy, zst, xyz, histogramsXYZ,
                   loc, fitsRead, front>>

\* The sum of partial histogram bin j over the slices 0 .. n-1
RECURSIVE PartialSum(_, _, _)
PartialSum(s, j, n) ==
    IF n = 0 THEN 0
    ELSE PartialSum(s, j, n - 1)
         + partialHistogramsXYZ[s * depth * numBinsHistXYZ + (n - 1) * numBinsHistXYZ + j]

\* A reduction whose index of the final histogram leaves the polarization
\* out: every polarization is added to row 0
ConsolidateHistFirstRow ==
    /\ pc = "consolidate_hist"
    /\ histogramsXYZ' = [x \in DOMAIN histogramsXYZ |->
         IF InSlab(x, 0, numBinsHistXYZ)
         THEN histogramsXYZ[x] + PartialSum(currentStokes, x, depth)
         ELSE histogramsXYZ[x]]
    /\ pc' = "write_data"
    /\ UNCHANGED <<status, exitCode, hdr, shape, fs, out, bufs, xy, zst, xyz, histogramsXY,
                   partialHistogramsXYZ, loc, fitsRead, front>>

\* Consolidate partial XYZ histograms into final histogram (main.cc 397-405)
ConsolidateHist ==
    /\ pc = "consolidate_hist"
    /\ histogramsXYZ' = [x \in DOMAIN histogramsXYZ |->
         IF InSlab(x, currentStokes * numBinsHistXYZ, numBinsHistXYZ)
         THEN histogramsXYZ[x] + PartialSum(currentStokes, x - currentStokes * numBinsHistXYZ, depth)
         ELSE histogramsXYZ[x]]
    /\ pc' = "write_data"
    /\ UNCHANGED <<status, exitCode, hdr, shape, fs, out, bufs, xy, zst, xyz, histogramsXY,
                   partialHistogramsXYZ, loc, fitsRead, front>>

\* The dimension vectors of main.cc 97-119 and 416-426: {height, width} with
\* the depth axis put in front when N >= 3 and the stokes axis when N == 4.
Dims(s, d) ==
    (IF N = 4 THEN <<s>> ELSE <<>>) \o (IF N >= 3 THEN <<d>> ELSE <<>>)
        \o <<height, width>>

\* A start vector that is the origin for every polarization: each write
\* lands on region 0.  C2 must reject it.
startAtOrigin == (IF N = 4 THEN <<0>> ELSE <<>>)
                    \o (IF N >= 3 THEN <<0>> ELSE <<>>) \o <<0, 0>>

standardDims == Dims(stokes, depth)
count        == Dims(1, depth)
start        == (IF N = 4 THEN <<currentStokes>> ELSE <<>>)
                    \o (IF N >= 3 THEN <<0>> ELSE <<>>) \o <<0, 0>>

RECURSIVE Stride(_, _)
Stride(dims, r) == IF r >= Len(dims) THEN 1 ELSE dims[r + 1] * Stride(dims, r + 1)

\* The file offset of the n-th element (row-major) of the hyperslab
\* (cnt, st) of a dataspace of extent dims; r is the number of axes.
RECURSIVE SelOffset(_, _, _, _, _)
SelOffset(dims, cnt, st, r, n) ==
    IF r = 0 THEN 0
    ELSE (st[r] + (n % cnt[r])) * Stride(dims, r)
         + SelOffset(dims, cnt, st, r - 1, n \div cnt[r])

\* DataSet::write(mem, NATIVE_FLOAT, memspace, filespace): the elements of
\* the memory buffer, in order, go to the selected elements of the file
\* space, in row-major order of the selection.  The dataset after the first
\* n elements:
RECURSIVE H5Write(_, _, _, _, _, _)
H5Write(dataset, mem, dims, cnt, st, n) ==
    IF n = 0 THEN dataset
    ELSE [H5Write(dataset, mem, dims, cnt, st, n - 1) EXCEPT
            ![SelOffset(dims, cnt, st, Len(dims), n - 1)] = mem[n - 1]]

\* The hyperslab write of DATA and SwizzledData and the step of the
\* polarization loop (main.cc 412-442, 229).  Both writes use sliceDataSpace,
\* the file space of DATA.  When a call after the write of DATA throws
\* (openGroup, openDataSet or the write of the swizzled cube), DATA holds
\* the cube already.
WriteData(F) ==
    /\ pc = "write_data"
    /\ \/ Throw(F)
       \/ /\ Abort(F)
          /\ depth > 1
          /\ outDATA' = H5Write(outDATA, standardCube, standardDims, count, start, cubeSize)
          /\ UNCHANGED <<status, hdr, shape, fs, outSwizzled, statsWritten, bufs, xy, zst,
                         xyz, hist, loc, fitsRead, front>>
       \/ /\ outDATA' = H5Write(outDATA, standardCube, standardDims, count, start, cubeSize)
          /\ outSwizzled' = IF depth > 1
                            THEN H5Write(outSwizzled, rotatedCube, standardDims, count, start,
                                         cubeSize)
                            ELSE outSwizzled
          /\ currentStokes' = currentStokes + 1
          /\ pc' = IF currentStokes + 1 < stokes THEN "read" ELSE "write_stats"
          /\ UNCHANGED <<status, exitCode, hdr, shape, fs, statsWritten, bufs, xy, zst,
                         xyz, hist, xyzMin, xyzMax, fitsRead, front>>

\* The Statistics group (main.cc 444-487).  statsWritten stands for the
\* whole group: it stays FALSE when one of the calls throws, whatever part
\* of the group the file holds by then.
WriteStats(F) ==
    /\ pc = "write_stats"
    /\ \/ Throw(F)
       \/ /\ statsWritten' = TRUE
          /\ pc' = "close"
          /\ UNCHANGED <<status, exitCode, hdr, shape, fs, outDATA, outSwizzled, bufs, xy,
                         zst, xyz, hist, loc, fitsRead, front>>

\* outputFile.close(), rename() and return 0 (main.cc 489-500).  The result
\* of rename() is not looked at.
CloseRename(F) ==
    /\ pc = "close"
    /\ \/ Throw(F)
       \/ /\ \E renamed \in F :
               /\ finalExists' = renamed
               /\ tmpExists' = ~renamed
          /\ pc' = "exit"
          /\ exitCode' = 0
          /\ UNCHANGED <<status, hdr, shape, out, bufs, xy, zst, xyz, hist, loc, fitsRead, front>>

\* The elements of the shared arrays that iteration i of the first loop
\* (parallel over i, main.cc 247-286) reads and writes, as pairs of array
\* name and index.  minVal, maxVal, sum, nanCount, j and k are declared in
\* the body and are private to the iteration.
SliceReads(i) ==
    {<<"standardCube", sourceIndex(i, j, k)>> : j \in 0 .. height - 1, k \in 0 .. width - 1}
SliceWrites(i) ==
    (IF depth > 1
     THEN {<<"rotatedCube", destIndex(i, j, k)>> : j \in 0 .. height - 1, k \in 0 .. width - 1}
     ELSE {})
    \cup {<<a, currentStokes * depth + i>> :
             a \in {"minValsXY", "maxValsXY", "nanValsXY", "meanValsXY"}}

\* Iteration j of the second loop (parallel over j, main.cc 320-354)
ProfileReads(j) ==
    {<<"standardCube", sourceIndex(i, j, k)>> : i \in 0 .. depth - 1, k \in 0 .. width - 1}
ProfileWrites(j) ==
    {<<a, currentStokes * width * height + k + j * width>> :
        a \in {"minValsZ", "maxValsZ", "nanValsZ", "meanValsZ"}, k \in 0 .. width - 1}

\* Iteration i of the third loop (parallel over i, main.cc 370-395).  The
\* increments read the element they write.
HistogramWrites(i) ==
    IF SkipSlice(currentStokes, i) THEN {}
    ELSE LET live == {j \in 0 .. width * height - 1 :
                        ~isnan(standardCube[i * width * height + j])}
             lo   == minValsXY[currentStokes * depth + i]
             hi   == maxValsXY[currentStokes * depth + i]
         IN  {<<"histogramsXY",
                currentStokes * depth * numBinsHistXY + i * numBinsHistXY
                + binIndex(numBinsHistXY, standardCube[i * width * height + j], lo,
                           Range(hi, lo))>> : j \in live}
             \cup (IF depth > 1
                   THEN {<<"partialHistogramsXYZ",
                           currentStokes * depth * numBinsHistXYZ + i * numBinsHistXYZ
                           + binIndex(numBinsHistXYZ, standardCube[i * width * height + j],
                                      xyzMin, Range(xyzMax, xyzMin))>> : j \in live}
                   ELSE {})
HistogramReads(i) ==
    {<<"minValsXY", currentStokes * depth + i>>, <<"maxValsXY", currentStokes * depth + i>>}
    \cup (IF SkipSlice(currentStokes, i) THEN {}
          ELSE {<<"standardCube", i * width * height + j>> : j \in 0 .. width * height - 1})
    \cup HistogramWrites(i)

Step(F, Sh) ==
    \/ ParseArgs
    \/ OpenFile(F) \/ GetImgTypeDim(F) \/ GetImgSize(F, Sh) \/ CreateOutput(F)
    \/ GetHdrSpace(F) \/ TranslateHeaders(F) \/ CreateDatasets(F) \/ Allocate(F) \/ ReadPix(F)
    \/ SlicePass \/ ConsolidateXYZ \/ ProfilePass \/ HistogramPass \/ ConsolidateHist
    \/ WriteData(F) \/ WriteStats(F) \/ CloseRename(F)

\* Runs in which every call to the reader, the writer and the allocator
\* succeeds.
Next == Step(Succeeds, AllShapes)
Spec == Init /\ [][Next]_vars

\* Runs in which those calls may fail.
NextFaults == Step(MayFail, AllShapes)
SpecFaults == Init /\ [][NextFaults]_vars

\* Runs on one image for every command line and every header of the model
InitFront == Start(FrontInputs)
NextFront == Step(Succeeds, FrontShapes)
SpecFront == InitFront /\ [][NextFront]_vars

\* Runs on the images of two polarizations
NextStokes == Step(Succeeds, StokesShapes)
SpecStokes == Init /\ [][NextStokes]_vars

\* ------------------------------------------------------------------
\* Properties of the output
\* ------------------------------------------------------------------

\* Element [s, i, j, k] of DATA, whose dimensions are standardDims, and
\* element [s, k, j, i] of SwizzledData, whose dimensions are swizzledDims
\* (main.cc 97-119); the first coordinate is absent when N < 4 and s is 0.
DATAat(s, i, j, k)     == outDATA[((s * depth + i) * height + j) * width + k]
SwizzledAt(s, k, j, i) == outSwizzled[((s * width + k) * height + j) * depth + i]

\* Pixel (X = k, Y = j, Z = i) of the cube the reader delivered
InputPixel(cube, i, j, k) == cube[k + width * j + width * height * i]

\* The polarizations whose cube has been written
Written == 0 .. currentStokes - 1

\* The state right after the first loop over the cube of currentStokes, and
\* the state in which every polarization has been processed
AfterSlicePass == pc = "consolidate" \/ (pc = "histogram" /\ depth = 1)
AllProcessed   == pc = "close"

\* m is the least (greatest) of the values of the non-empty set S
IsLeast(m, S)    == m \in S /\ \A v \in S : ~Less(v, m)
IsGreatest(m, S) == m \in S /\ \A v \in S : ~Less(m, v)

\* The set of positions P of the cube that hold a number
NonNaN(cube, P) == {p \in P : ~isnan(cube[p])}

\* The sum of the integer pixel values of the cube at the positions P
RECURSIVE IntSum(_, _)
IntSum(cube, P) ==
    IF P = {} THEN 0
    ELSE LET p == CHOOSE q \in P : TRUE
         IN  ToInt(cube[p]) + IntSum(cube, P \ {p})

\* The positions of slice i, and of the Z profile at (j, k)
SlicePositions(i)      == {i * width * height + p : p \in 0 .. width * height - 1}
ProfilePositions(j, k) == {sourceIndex(i, j, k) : i \in 0 .. depth - 1}

\* The minimum, maximum and mean at index x of three vectors are those of
\* the numbers of the cube at the positions P, of which there is one at
\* least.
StatsOf(cube, P, minVals, maxVals, meanVals, x) ==
    /\ IsLeast(minVals[x], {cube[p] : p \in NonNaN(cube, P)})
    /\ IsGreatest(maxVals[x], {cube[p] : p \in NonNaN(cube, P)})
    /\ meanVals[x] = Round(IntSum(cube, NonNaN(cube, P)), Cardinality(NonNaN(cube, P)), 0)

\* The three values at index x are the NaN marker
AllNaNAt(minVals, maxVals, meanVals, x) ==
    isnan(minVals[x]) /\ isnan(maxVals[x]) /\ isnan(meanVals[x])

\* C1: when depth > 1, for every polarization s written and every (i, j, k),
\* SwizzledData[s, k, j, i] equals DATA[s, i, j, k]; the transposed store is
\* made for NaN pixels as for numbers.
C1_SwizzledIsTranspose ==
    depth > 1 =>
        \A s \in Written : \A i \in 0 .. depth - 1 : \A j \in 0 .. height - 1 :
            \A k \in 0 .. width - 1 :
                SwizzledAt(s, k, j, i) = DATAat(s, i, j, k)

\* A complete run on a cube with depth and width above 1 that holds a NaN
\* and two different numbers
C1_Witness ==
    /\ pc = "exit" /\ exitCode = 0 /\ depth > 1 /\ width > 1
    /\ \E x \in DOMAIN outSwizzled : isnan(outSwizzled[x])
    /\ \E x, y \in DOMAIN outSwizzled :
         ~isnan(outSwizzled[x]) /\ ~isnan(outSwizzled[y]) /\ outSwizzled[x] # outSwizzled[y]
    /\ outSwizzled # outDATA

\* C2: the region of DATA of every polarization s written holds the pixels
\* the reader delivered for s, in (Z, Y, X) order; the hyperslab of a write
\* is the region of the current polarization alone, so the regions of the
\* polarizations not yet written still hold the fill value.
C2_DataIsInput ==
    pc \in {"read", "slice_pass", "consolidate", "profile_pass", "histogram",
            "consolidate_hist", "write_data", "write_stats", "close", "exit"} =>
        /\ \A s \in Written : \A i \in 0 .. depth - 1 : \A j \in 0 .. height - 1 :
             \A k \in 0 .. width - 1 :
               /\ s \in DOMAIN fitsRead
               /\ DATAat(s, i, j, k) = InputPixel(fitsRead[s], i, j, k)
        /\ \A x \in DOMAIN outDATA : x >= currentStokes * cubeSize => outDATA[x] = FromInt(0)

\* Two polarizations with different cubes, neither of them all zero, both
\* written
C2_Witness ==
    /\ pc = "write_stats" /\ stokes > 1 /\ currentStokes = stokes /\ width > 1
    /\ DOMAIN fitsRead = 0 .. stokes - 1
    /\ fitsRead[0] # fitsRead[1]
    /\ \E x \in DOMAIN fitsRead[0] : isnan(fitsRead[0][x])
    /\ \E x \in DOMAIN fitsRead[1] : fitsRead[1][x] = FromInt(1)

\* The slice statistics of polarization s are those of the cube
SliceLaw(s, cube) ==
    \A i \in 0 .. depth - 1 :
        LET nan == width * height - Cardinality(NonNaN(cube, SlicePositions(i)))
        IN  /\ nanValsXY[s * depth + i] = nan
            /\ nanValsXY[s * depth + i] \in 0 .. height * width
            /\ IF nan = height * width
               THEN AllNaNAt(minValsXY, maxValsXY, meanValsXY, s * depth + i)
               ELSE StatsOf(cube, SlicePositions(i), minValsXY, maxValsXY, meanValsXY,
                            s * depth + i)

\* C3: after the slice statistics pass for polarization s, for every slice z,
\* nanXY[s, z] is the number of NaN pixels of the slice and lies in
\* [0, H*W]; when it is H*W the minimum, maximum and mean are NaN, otherwise
\* they are the minimum, the maximum and sum / (H*W - nanXY) of the non-NaN
\* pixels.  The values stay as they are until the statistics are written.
C3_SliceStatistics ==
    /\ AfterSlicePass => SliceLaw(currentStokes, standardCube)
    /\ AllProcessed => \A s \in 0 .. stokes - 1 : SliceLaw(s, fitsRead[s])

\* All polarizations processed; one slice is all NaN and another holds a NaN
\* and two different numbers
C3_Witness ==
    /\ AllProcessed
    /\ \E x \in DOMAIN nanValsXY : nanValsXY[x] = height * width
    /\ \E x \in DOMAIN nanValsXY :
         /\ 0 < nanValsXY[x] /\ nanValsXY[x] < height * width
         /\ Less(minValsXY[x], maxValsXY[x])
         /\ ~(meanValsXY[x] \in {minValsXY[x], maxValsXY[x]})

\* The slices of polarization s that are not entirely NaN
LiveSlices(s) == {i \in 0 .. depth - 1 : nanValsXY[s * depth + i] # height * width}

\* The sum of nanXY[s, z] over the slices z < n
RECURSIVE NanSum(_, _)
NanSum(s, n) == IF n = 0 THEN 0 ELSE NanSum(s, n - 1) + nanValsXY[s * depth + n - 1]

\* The cube statistics of polarization s are those of its slices
CubeLaw(s) ==
    /\ nanValsXYZ[s] = NanSum(s, depth)
    /\ LiveSlices(s) # {} =>
         /\ IsLeast(minValsXYZ[s], {minValsXY[s * depth + i] : i \in LiveSlices(s)})
         /\ IsGreatest(maxValsXYZ[s], {maxValsXY[s * depth + i] : i \in LiveSlices(s)})

\* C4: when depth > 1, after the consolidation for polarization s,
\* nanXYZ[s] is the sum of nanXY[s, z] over all slices, and minXYZ[s] and
\* maxXYZ[s] are the minimum and maximum of minXY and maxXY over the slices
\* that are not entirely NaN, whichever slices those are, slice 0 included.
C4_CubeMinMaxNan ==
    depth > 1 =>
        /\ pc = "profile_pass" => CubeLaw(currentStokes)
        /\ AllProcessed => \A s \in 0 .. stokes - 1 : CubeLaw(s)

\* Slice 0 is entirely NaN, a later slice is not, and the consolidation
\* has run
C4_Witness ==
    /\ pc = "profile_pass" /\ depth > 1
    /\ nanValsXY[currentStokes * depth] = height * width
    /\ LiveSlices(currentStokes) # {}
    /\ ~isnan(minValsXYZ[currentStokes])
    /\ Less(minValsXYZ[currentStokes], maxValsXYZ[currentStokes])

\* The sum of meanXY[s, z] * (H*W - nanXY[s, z]) over the slices z < n that
\* are not entirely NaN: each product in single precision, the sum in double
RECURSIVE WeightedSum(_, _)
WeightedSum(s, n) ==
    IF n = 0 THEN FromInt(0)
    ELSE IF n - 1 \in LiveSlices(s)
    THEN ExactAdd(WeightedSum(s, n - 1),
                  FMul(meanValsXY[s * depth + n - 1],
                       height * width - nanValsXY[s * depth + n - 1]))
    ELSE WeightedSum(s, n - 1)

MeanLaw(s) ==
    IF nanValsXYZ[s] # depth * height * width
    THEN meanValsXYZ[s] = FDiv(WeightedSum(s, depth), depth * height * width - nanValsXYZ[s])
    ELSE meanValsXYZ[s] = FromInt(0)

\* C5: when depth > 1, after the consolidation for polarization s,
\* meanXYZ[s] is the sum of meanXY[s, z] * (H*W - nanXY[s, z]) over the slices
\* that are not entirely NaN, divided by D*H*W - nanXYZ[s]; when the whole
\* cube is NaN nothing is divided and the stored mean is 0.
C5_CubeMean ==
    depth > 1 =>
        /\ pc = "profile_pass" => MeanLaw(currentStokes)
        /\ AllProcessed => \A s \in 0 .. stokes - 1 : MeanLaw(s)

\* Two polarizations processed: the cube of one is all NaN, the cube of the
\* other holds a NaN and a number other than 0
C5_Witness ==
    /\ AllProcessed /\ depth > 1
    /\ \E s \in 0 .. stokes - 1 :
         nanValsXYZ[s] = depth * height * width /\ meanValsXYZ[s] = FromInt(0)
    /\ \E s \in 0 .. stokes - 1 :
         /\ 0 < nanValsXYZ[s] /\ nanValsXYZ[s] < depth * height * width
         /\ meanValsXYZ[s] # FromInt(0)

\* C6: when depth > 1, after the profile pass for polarization s, for every
\* pixel (y, x) with at least one non-NaN value along Z, nanZ is the number
\* of NaN values of the profile and minZ, maxZ and meanZ are the minimum,
\* the maximum and sum / (D - nanZ) of its non-NaN values, for every shape.
C6_ProfileStatistics ==
    (pc = "histogram" /\ depth > 1) =>
        \A j \in 0 .. height - 1 : \A k \in 0 .. width - 1 :
            NonNaN(standardCube, ProfilePositions(j, k)) # {} =>
                /\ nanValsZ[currentStokes * width * height + k + j * width]
                     = depth - Cardinality(NonNaN(standardCube, ProfilePositions(j, k)))
                /\ StatsOf(standardCube, ProfilePositions(j, k), minValsZ, maxValsZ,
                           meanValsZ, currentStokes * width * height + k + j * width)

\* C7: when depth > 1, after the profile pass for polarization s, for every
\* pixel (y, x), nanZ lies in [0, D], and when it is D the profile is
\* entirely NaN and minZ, maxZ and meanZ are NaN, never the initial
\* largest and smallest float values.
C7_AllNaNProfile ==
    (pc = "histogram" /\ depth > 1) =>
        \A x \in 0 .. width * height - 1 :
            /\ nanValsZ[currentStokes * width * height + x] \in 0 .. depth
            /\ nanValsZ[currentStokes * width * height + x] = depth =>
                 AllNaNAt(minValsZ, maxValsZ, meanValsZ, currentStokes * width * height + x)

\* The sum of the n elements of h from index base on
RECURSIVE RowSum(_, _, _)
RowSum(h, base, n) == IF n = 0 THEN 0 ELSE h[base + n - 1] + RowSum(h, base, n - 1)

\* The XY histograms of polarization s count the non-NaN pixels of every
\* slice whose range is not degenerate, each in a bin of the row of the
\* slice, and are zero for the other slices
HistogramLaw(s, cube) ==
    \A i \in 0 .. depth - 1 :
        IF \/ isnan(minValsXY[s * depth + i]) \/ isnan(maxValsXY[s * depth + i])
           \/ minValsXY[s * depth + i] = maxValsXY[s * depth + i]
        THEN \A b \in 0 .. numBinsHistXY - 1 :
                 histogramsXY[(s * depth + i) * numBinsHistXY + b] = 0
        ELSE /\ RowSum(histogramsXY, (s * depth + i) * numBinsHistXY, numBinsHistXY)
                  = height * width - nanValsXY[s * depth + i]
             /\ \A p \in NonNaN(cube, SlicePositions(i)) :
                  binIndex(numBinsHistXY, cube[p], minValsXY[s * depth + i],
                           Range(maxValsXY[s * depth + i], minValsXY[s * depth + i]))
                      \in 0 .. numBinsHistXY - 1

\* C8: after the histogram pass, for every slice (s, z) whose range is not
\* degenerate, the bins of the XY histogram sum to H*W - nanXY[s, z] and
\* every pixel counted is in a bin of [0, B-1]; for a slice whose minimum is
\* NaN or equals its maximum every bin is 0.
C8_HistogramXY ==
    /\ (pc = "consolidate_hist" \/ (pc = "write_data" /\ depth = 1)) =>
           HistogramLaw(currentStokes, standardCube)
    /\ AllProcessed => \A s \in 0 .. stokes - 1 : HistogramLaw(s, fitsRead[s])

\* All polarizations processed; one slice holds a NaN and two different
\* numbers, another is constant, and some histogram has two bins in use
C8_Witness ==
    /\ AllProcessed /\ numBinsHistXY > 1
    /\ \E x \in DOMAIN nanValsXY :
         0 < nanValsXY[x] /\ Less(minValsXY[x], maxValsXY[x])
    /\ \E x \in DOMAIN nanValsXY :
         ~isnan(minValsXY[x]) /\ minValsXY[x] = maxValsXY[x]
    /\ \E x \in DOMAIN histogramsXY : \E y \in DOMAIN histogramsXY :
         x # y /\ histogramsXY[x] > 0 /\ histogramsXY[y] > 0

\* C9: when depth > 1 and the range of the cube is not degenerate, the bins
\* of the XYZ histogram of polarization s sum to D*H*W - nanXYZ[s]: every
\* non-NaN pixel of the cube is counted once, whatever the range of its own
\* slice is.
C9_HistogramXYZ ==
    (/\ pc = "write_data" /\ depth > 1
     /\ ~isnan(minValsXYZ[currentStokes]) /\ ~isnan(maxValsXYZ[currentStokes])
     /\ minValsXYZ[currentStokes] # maxValsXYZ[currentStokes])
        => RowSum(histogramsXYZ, currentStokes * numBinsHistXYZ, numBinsHistXYZ)
               = depth * height * width - nanValsXYZ[currentStokes]

\* The first polarization has been read: every call to the reader before
\* that read has succeeded, so the run has read no object without a value
\* (a later read that fails leaves the cube of the polarization before).
EveryObjectRead == 0 \in DOMAIN fitsRead

\* C10: the final file exists only if the run completed: when a call to the
\* reader or the writer has failed, no rename is made and the exit code is
\* not 0.  The claim is stated for the runs in which every object read has
\* a value, whose course the source determines in full.
C10_AtomicPublication ==
    (status # 0 /\ EveryObjectRead) =>
        (~finalExists /\ (pc \in {"exit", "aborted"} => exitCode # 0))

\* ------------------------------------------------------------------
\* Properties of the header attributes and of the output name
\* ------------------------------------------------------------------

\* The record is a keyword record: it does not start with COMMENT or
\* HISTORY and holds an '='
IsKeyword(rec) ==
    /\ ~StartsWith(rec, <<"C", "O", "M", "M", "E", "N", "T">>)
    /\ ~StartsWith(rec, <<"H", "I", "S", "T", "O", "R", "Y">>)
    /\ \E p \in 1 .. Len(rec) : rec[p] = "="

\* The positions (from 1) of the first '=' of a keyword record and of the
\* end of its value field: the last '/' if there is one, else one past the
\* end of the record
FirstEq(rec)  == CHOOSE p \in 1 .. Len(rec) : rec[p] = "=" /\ \A q \in 1 .. p - 1 : rec[q] # "="
FieldEnd(rec) ==
    IF \E p \in 1 .. Len(rec) : rec[p] = "/"
    THEN CHOOSE p \in 1 .. Len(rec) : rec[p] = "/" /\ \A q \in p + 1 .. Len(rec) : rec[q] # "/"
    ELSE Len(rec) + 1

\* s without one pair of single quotes around it
Stripped(s) ==
    IF Len(s) >= 2 /\ s[1] = "'" /\ s[Len(s)] = "'" THEN trim(SubSeq(s, 2, Len(s) - 1)) ELSE s

KeywordName(rec)  == trim(SubSeq(rec, 1, FirstEq(rec) - 1))
KeywordValue(rec) == Stripped(trim(SubSeq(rec, FirstEq(rec) + 1, FieldEnd(rec) - 1)))

\* Record r of the header is the first to give its name, which is not the
\* name of a fixed attribute either
FirstOfName(r) ==
    /\ KeywordName(header[r]) \notin DOMAIN FixedAttributes
    /\ \A q \in 1 .. r - 1 :
         IsKeyword(header[q]) => KeywordName(header[q]) # KeywordName(header[r])

\* The header translator has run over the whole header without a failure
HeadersDone == pc = "create_datasets" /\ status = 0

\* C11: after the header translator has run over a header of numHeaders
\* records, the name of every keyword record, the last record included, is
\* an attribute of the root group, and the value of the attribute is the
\* trimmed, unquoted value field of the first record of that name.
C11_HeaderTranslation ==
    HeadersDone =>
        \A r \in 1 .. Len(header) :
            IsKeyword(header[r]) =>
                /\ KeywordName(header[r]) \in DOMAIN attributes
                /\ FirstOfName(r) =>
                     attributes[KeywordName(header[r])] = KeywordValue(header[r])

\* C12: once an attribute name exists on the root group, from a fixed
\* attribute or from an earlier record, no later step changes its value or
\* removes it, and the record that repeats the name adds a warning with
\* that name and nothing else.
C12_FirstOccurrenceKept ==
    [][/\ \A n \in DOMAIN attributes :
             n \in DOMAIN attributes' /\ attributes'[n] = attributes[n]
       /\ (/\ pc = "header_loop" /\ pc' # "aborted"
           /\ ~NoAttribute(headerTmp')
           /\ attributeName(headerTmp') \in DOMAIN attributes)
            => /\ warnings' = Append(warnings, attributeName(headerTmp'))
               /\ attributes' = attributes
       /\ warnings' # warnings => attributes' = attributes]_vars

\* The header has been translated; its second record repeated the name of
\* its first record with another value, and the value of the first is kept
C12_Witness ==
    /\ HeadersDone
    /\ Len(header) = 3
    /\ IsKeyword(header[1]) /\ IsKeyword(header[2])
    /\ KeywordName(header[1]) = KeywordName(header[2])
    /\ KeywordValue(header[1]) # KeywordValue(header[2])
    /\ warnings = <<KeywordName(header[2])>>
    /\ attributes[KeywordName(header[1])] = KeywordValue(header[1])

\* The name ends in ".fits"
EndsInFits(name) ==
    Len(name) >= 5 /\ SubSeq(name, Len(name) - 4, Len(name)) = <<".", "f", "i", "t", "s">>

\* C13: when no output name is given on the command line, the output name
\* is the input name without its trailing ".fits", followed by ".hdf5", if
\* the input name ends in ".fits", and the whole input name followed by
\* ".hdf5" otherwise.
C13_DerivedOutputName ==
    (pc = "open" /\ Len(argv) = 1) =>
        outputFileName =
            (IF EndsInFits(argv[1]) THEN SubSeq(argv[1], 1, Len(argv[1]) - 5) ELSE argv[1])
                \o <<".", "h", "d", "f", "5">>

\* ------------------------------------------------------------------
\* Order of the stages
\* ------------------------------------------------------------------

\* The stages of the loop over the polarizations, in the order of the code
Stages ==
    <<"read", "slice_pass", "consolidate", "profile_pass", "histogram",
      "consolidate_hist", "write_data">>
StageOf(p) == CHOOSE n \in 1 .. Len(Stages) : Stages[n] = p
InLoop     == \E n \in 1 .. Len(Stages) : Stages[n] = pc

\* The stages a cube of depth d goes through: consolidation, profiles and
\* the reduction of the partial histograms only when d > 1
Applies(n, d) == Stages[n] \in {"consolidate", "profile_pass", "consolidate_hist"} => d > 1

\* The first stage after stage n that applies to depth d; 0 after the write
FollowingStage(n, d) ==
    IF \E m \in n + 1 .. Len(Stages) : Applies(m, d)
    THEN CHOOSE m \in n + 1 .. Len(Stages) :
             Applies(m, d) /\ \A q \in n + 1 .. m - 1 : ~Applies(q, d)
    ELSE 0

\* A step inside the loop goes to the following stage of the same
\* polarization; the step after the write goes to the read of the next
\* polarization, or to the statistics after the last one
StageOrder ==
    InLoop =>
        IF FollowingStage(StageOf(pc), depth) # 0
        THEN /\ pc' = Stages[FollowingStage(StageOf(pc), depth)]
             /\ currentStokes' = currentStokes
        ELSE /\ currentStokes' = currentStokes + 1
             /\ pc' = IF currentStokes + 1 < stokes THEN "read" ELSE "write_stats"

\* Each result changes only in its own stage, once the arrays are allocated
StageEffects ==
    /\ fitsRead' # fitsRead =>
         /\ pc = "read"
         /\ DOMAIN fitsRead = 0 .. currentStokes - 1
         /\ DOMAIN fitsRead' = 0 .. currentStokes
    /\ (InLoop /\ xy' # xy) => pc = "slice_pass"
    /\ (InLoop /\ rotatedCube' # rotatedCube) => pc = "slice_pass"
    /\ (InLoop /\ <<xyz, xyzMin, xyzMax>>' # <<xyz, xyzMin, xyzMax>>) => pc = "consolidate"
    /\ (InLoop /\ zst' # zst) => pc = "profile_pass"
    /\ (InLoop /\ <<histogramsXY, partialHistogramsXYZ>>' # <<histogramsXY, partialHistogramsXYZ>>)
         => pc = "histogram"
    /\ (InLoop /\ histogramsXYZ' # histogramsXYZ) => pc = "consolidate_hist"
    /\ (InLoop /\ <<outDATA, outSwizzled>>' # <<outDATA, outSwizzled>>) => pc = "write_data"
    /\ (InLoop /\ standardCube' # standardCube) => pc = "read"

\* The histogram loop of a cube runs with the minimum and maximum the
\* consolidation stored for its polarization
CubeRangeFromConsolidation ==
    (pc = "histogram" /\ depth > 1) =>
        /\ xyzMin = minValsXYZ[currentStokes] /\ xyzMax = maxValsXYZ[currentStokes]
        /\ xyzMin' = xyzMin /\ xyzMax' = xyzMax

\* The Statistics group is written once, after the write of the last
\* polarization and before the output is closed and renamed
StatisticsOnce ==
    /\ statsWritten' # statsWritten =>
         /\ ~statsWritten /\ pc = "write_stats" /\ currentStokes = stokes
         /\ DOMAIN fitsRead = 0 .. stokes - 1
         /\ ~finalExists /\ pc' = "close"
    /\ finalExists' # finalExists => (statsWritten /\ pc = "close")

\* C14: the polarizations are processed in increasing order; for each, the
\* read, the slice pass, the consolidation and the profile pass (depth > 1),
\* the histogram pass with the cube minimum and maximum of the
\* consolidation, the reduction of the partial histograms (depth > 1) and
\* the write of DATA and SwizzledData follow one another in this order; the
\* write of a polarization precedes the read of the next; the Statistics
\* group is written once, after the last polarization and before the close
\* and the rename.
C14_StageOrder ==
    [][StageOrder /\ StageEffects /\ CubeRangeFromConsolidation /\ StatisticsOnce]_vars

\* A run over two polarizations of depth 2 has finished
C14_Witness ==
    /\ pc = "exit" /\ exitCode = 0
    /\ stokes = 2 /\ depth = 2
    /\ DOMAIN fitsRead = {0, 1}
    /\ statsWritten /\ finalExists

\* ------------------------------------------------------------------
\* The parallel loops
\* ------------------------------------------------------------------

\* The iterations, given by their write sets W[i] and read sets R[i], touch
\* no common element unless both only read it
Independent(W, R) ==
    \A a, b \in DOMAIN W :
        a # b => (W[a] \cap W[b] = {} /\ R[a] \cap W[b] = {})

\* The elements of the array called name that differ between old and new
Changed(name, old, new) == {<<name, x>> : x \in {y \in DOMAIN old : new[y] # old[y]}}

\* No iteration of the loop that is about to run shares an element with
\* another one
LoopsIndependent ==
    /\ pc = "slice_pass" =>
         Independent([i \in 0 .. depth - 1 |-> SliceWrites(i)],
                     [i \in 0 .. depth - 1 |-> SliceReads(i)])
    /\ pc = "profile_pass" =>
         Independent([j \in 0 .. height - 1 |-> ProfileWrites(j)],
                     [j \in 0 .. height - 1 |-> ProfileReads(j)])
    /\ pc = "histogram" =>
         Independent([i \in 0 .. depth - 1 |-> HistogramWrites(i)],
                     [i \in 0 .. depth - 1 |-> HistogramReads(i)])

\* What a loop changes lies in the write sets of its iterations, and what
\* it reads from outside them is not changed by the loop
LoopsWriteOwnElements ==
    /\ pc = "slice_pass" =>
         /\ Changed("minValsXY", minValsXY, minValsXY') \cup Changed("maxValsXY", maxValsXY, maxValsXY')
              \cup Changed("nanValsXY", nanValsXY, nanValsXY')
              \cup Changed("meanValsXY", meanValsXY, meanValsXY')
              \cup Changed("rotatedCube", rotatedCube, rotatedCube')
              \subseteq UNION {SliceWrites(i) : i \in 0 .. depth - 1}
         /\ UNCHANGED <<standardCube, zst, xyz, hist>>
    /\ pc = "profile_pass" =>
         /\ Changed("minValsZ", minValsZ, minValsZ') \cup Changed("maxValsZ", maxValsZ, maxValsZ')
              \cup Changed("nanValsZ", nanValsZ, nanValsZ')
              \cup Changed("meanValsZ", meanValsZ, meanValsZ')
              \subseteq UNION {ProfileWrites(j) : j \in 0 .. height - 1}
         /\ UNCHANGED <<bufs, xy, xyz, hist>>
    /\ pc = "histogram" =>
         /\ Changed("histogramsXY", histogramsXY, histogramsXY')
              \cup Changed("partialHistogramsXYZ", partialHistogramsXYZ, partialHistogramsXYZ')
              = UNION {HistogramWrites(i) : i \in 0 .. depth - 1}
         /\ UNCHANGED <<bufs, xy, zst, xyz, histogramsXYZ, xyzMin, xyzMax>>

\* C15: in the slice pass (parallel over z), the profile pass (parallel over
\* y) and the histogram pass (parallel over z), no two distinct iterations
\* write the same element of a shared array, no iteration reads an element
\* that another iteration writes, and the loop changes nothing but the
\* elements its iterations write; so the result does not depend on the
\* order of the iterations.
C15_ParallelLoopsIndependent == []LoopsIndependent /\ [][LoopsWriteOwnElements]_vars

\* The histogram loop is about to run on a cube of two slices that are both
\* counted, and their write sets are not empty
C15_Witness ==
    /\ pc = "histogram" /\ depth > 1
    /\ \A i \in 0 .. depth - 1 : Cardinality(HistogramWrites(i)) >= 2

\* ------------------------------------------------------------------
\* Separation of the polarizations
\* ------------------------------------------------------------------

\* The elements n .. n + len - 1 of the vector are left as they are
SlabKept(old, new, n, len) == \A x \in n .. n + len - 1 : new[x] = old[x]

\* Everything that belongs to polarization s is left as it is: its XY, Z and
\* XYZ statistics, its histograms and its regions of DATA and SwizzledData
PolarizationKept(s) ==
    /\ SlabKept(minValsXY, minValsXY', s * depth, depth)
    /\ SlabKept(maxValsXY, maxValsXY', s * depth, depth)
    /\ SlabKept(meanValsXY, meanValsXY', s * depth, depth)
    /\ SlabKept(nanValsXY, nanValsXY', s * depth, depth)
    /\ SlabKept(histogramsXY, histogramsXY', s * depth * numBinsHistXY, depth * numBinsHistXY)
    /\ SlabKept(outDATA, outDATA', s * cubeSize, cubeSize)
    /\ depth > 1 =>
         /\ SlabKept(minValsZ, minValsZ', s * width * height, width * height)
         /\ SlabKept(maxValsZ, maxValsZ', s * width * height, width * height)
         /\ SlabKept(meanValsZ, meanValsZ', s * width * height, width * height)
         /\ SlabKept(nanValsZ, nanValsZ', s * width * height, width * height)
         /\ SlabKept(minValsXYZ, minValsXYZ', s, 1)
         /\ SlabKept(maxValsXYZ, maxValsXYZ', s, 1)
         /\ SlabKept(meanValsXYZ, meanValsXYZ', s, 1)
         /\ SlabKept(nanValsXYZ, nanValsXYZ', s, 1)
         /\ SlabKept(partialHistogramsXYZ, partialHistogramsXYZ',
                     s * depth * numBinsHistXYZ, depth * numBinsHistXYZ)
         /\ SlabKept(histogramsXYZ, histogramsXYZ', s * numBinsHistXYZ, numBinsHistXYZ)
         /\ SlabKept(outSwizzled, outSwizzled', s * cubeSize, cubeSize)

\* A step of the loop over the polarizations keeps every other polarization
OthersKept ==
    InLoop => \A s \in (0 .. stokes - 1) \ {currentStokes} : PolarizationKept(s)

\* The sum over the slices of bin j of the partial histograms of
\* polarization s
RECURSIVE ColumnSum(_, _, _)
ColumnSum(s, j, n) ==
    IF n = 0 THEN 0
    ELSE partialHistogramsXYZ[(s * depth + n - 1) * numBinsHistXYZ + j] + ColumnSum(s, j, n - 1)

\* The polarizations whose partial histograms have been reduced
Reduced == {s \in 0 .. stokes - 1 : s < currentStokes \/ (s = currentStokes /\ pc = "write_data")}

\* Every bin of the XYZ histogram of a reduced polarization is the sum of
\* that bin over the partial histograms of the same polarization, counted
\* once; the rows of the other polarizations are still zero
RowsReduced ==
    (depth > 1 /\ histogramsXYZ # <<>>) =>
        \A s \in 0 .. stokes - 1 : \A j \in 0 .. numBinsHistXYZ - 1 :
            histogramsXYZ[s * numBinsHistXYZ + j] =
                (IF s \in Reduced THEN ColumnSum(s, j, depth) ELSE 0)

\* C16: the processing of polarization s changes only entries that belong
\* to s: the XY, Z and XYZ statistics, the XY histograms, the partial and
\* final XYZ histograms and the written regions of DATA and SwizzledData of
\* every other polarization stay as they are; and each row of the final XYZ
\* histogram is the sum of the partial histograms of its own polarization,
\* each added exactly once.
C16_PolarizationsSeparate == [][OthersKept]_vars /\ []RowsReduced

\* Some entry of the slab of len entries at n is not 0
SlabInUse(h, n, len) == \E x \in n .. n + len - 1 : h[x] > 0

\* Two polarizations of depth 2 with different pixels have been processed:
\* each has counts in its XY histograms, in its partial XYZ histograms and
\* in its row of the final XYZ histogram, the two rows differ, and so do
\* the statistics and the written regions
C16_Witness ==
    /\ pc = "write_stats" /\ stokes = 2 /\ depth = 2
    /\ fitsRead[0] # fitsRead[1]
    /\ \A s \in 0 .. 1 :
         /\ SlabInUse(histogramsXY, s * depth * numBinsHistXY, depth * numBinsHistXY)
         /\ SlabInUse(partialHistogramsXYZ, s * depth * numBinsHistXYZ,
                      depth * numBinsHistXYZ)
         /\ SlabInUse(histogramsXYZ, s * numBinsHistXYZ, numBinsHistXYZ)
    /\ \E j \in 0 .. numBinsHistXYZ - 1 :
         histogramsXYZ[j] # histogramsXYZ[numBinsHistXYZ + j]
    /\ meanValsXY[0] # meanValsXY[2]
    /\ meanValsXYZ[0] # meanValsXYZ[1]
    /\ meanValsZ[0] # meanValsZ[width * height]
    /\ outDATA[0] # outDATA[cubeSize]
    /\ outSwizzled[0] # outSwizzled[cubeSize]

====
